---- MODULE Spec2Model ----
(***************************************************************************)
(* Model of the movie bot (src/bot.py): the movies table, the pending      *)
(* upload map, the /addmovie, photo and /start handlers with their         *)
(* suspension points, and the detached delete_later tasks.                 *)
(*                                                                         *)
(* Text is a sequence of character codes (ASCII), so that str.split,       *)
(* str.strip, urllib.parse.quote / unquote and ORDER BY file_id are        *)
(* computed character by character.                                        *)
(***************************************************************************)
EXTENDS Integers, Sequences, FiniteSets, TLC

VARIABLES
    CHANNELS,       \* the configured channel list (bot.py:60-63)
    movies,         \* rows of the movies table (bot.py:90-95)
    pending_adds,   \* _pending_adds: dict keyed by user id (bot.py:138)
    tasks,          \* handler invocations of receive_cover and cmd_start
    deleters,       \* delete_later tasks created by cmd_start
    addLog,         \* the last cmd_addmovie invocation: its reply and the
                    \* pending record it overwrote
    callLog,        \* store harness: the db_add_movie calls made so far
    listed,         \* store harness: the last db_get_movies call and result
    link            \* link harness: text -> code -> deep link -> looked-up code

vars == <<CHANNELS, movies, pending_adds, tasks, deleters, addLog,
          callLog, listed, link>>

botVars == <<CHANNELS, pending_adds, tasks, deleters, addLog>>

(***************************************************************************)
(* Bounds of the model.                                                    *)
(***************************************************************************)
MaxChannels == 2    \* longest configured channel list explored
MaxCovers == 1      \* receive_cover invocations per behaviour
MaxStarts == 1      \* cmd_start invocations per behaviour
MaxCalls == 3       \* db_add_movie calls per behaviour of the store harness
MaxCodeLen == 3     \* longest /addmovie argument text of the link harness

None == "None"

(***************************************************************************)
(* Characters and strings.                                                 *)
(***************************************************************************)
Digits == <<"0", "1", "2", "3", "4", "5", "6", "7", "8", "9">>

Upper ==
    <<"A", "B", "C", "D", "E", "F", "G", "H", "I", "J", "K", "L", "M",
      "N", "O", "P", "Q", "R", "S", "T", "U", "V", "W", "X", "Y", "Z">>

Lower ==
    <<"a", "b", "c", "d", "e", "f", "g", "h", "i", "j", "k", "l", "m",
      "n", "o", "p", "q", "r", "s", "t", "u", "v", "w", "x", "y", "z">>

IndexOf(seq, c) == CHOOSE i \in 1..Len(seq) : seq[i] = c

\* ord(c) for a one-character string c.
Ascii(c) ==
    CASE c = "\t" -> 9
      [] c = "\n" -> 10
      [] c = " " -> 32
      [] c = "%" -> 37
      [] c = "&" -> 38
      [] c = "." -> 46
      [] c = "/" -> 47
      [] c = ":" -> 58
      [] c = "=" -> 61
      [] c = "?" -> 63
      [] c \in {Digits[i] : i \in 1..10} -> 47 + IndexOf(Digits, c)
      [] c \in {Upper[i] : i \in 1..26} -> 64 + IndexOf(Upper, c)
      [] c \in {Lower[i] : i \in 1..26} -> 96 + IndexOf(Lower, c)

\* Str(<<"x", "%">>) is the string "x%" as a sequence of character codes.
Str(cs) == [i \in 1..Len(cs) |-> Ascii(cs[i])]

\* str.isspace for one character of the ASCII range.
IsSpace(c) == c \in {9, 10, 11, 12, 13, 28, 29, 30, 31, 32}

RECURSIVE lstrip(_)
lstrip(s) ==
    IF s = <<>> THEN <<>>
    ELSE IF IsSpace(Head(s)) THEN lstrip(Tail(s)) ELSE s

RECURSIVE rstrip(_)
rstrip(s) ==
    IF s = <<>> THEN <<>>
    ELSE IF IsSpace(s[Len(s)]) THEN rstrip(SubSeq(s, 1, Len(s) - 1)) ELSE s

strip(s) == rstrip(lstrip(s))

\* Index of the first whitespace character of s, Len(s) + 1 if there is none.
RECURSIVE FirstSpace(_, _)
FirstSpace(s, i) ==
    IF i > Len(s) THEN i
    ELSE IF IsSpace(s[i]) THEN i ELSE FirstSpace(s, i + 1)

\* text.split(maxsplit=1): the first token, and the rest of the text with its
\* leading whitespace removed and its trailing whitespace kept.
split_maxsplit1(text) ==
    LET t == lstrip(text)
        k == FirstSpace(t, 1)
        rest == lstrip(SubSeq(t, k, Len(t)))
    IN  IF t = <<>> THEN <<>>
        ELSE IF rest = <<>> THEN <<SubSeq(t, 1, k - 1)>>
        ELSE <<SubSeq(t, 1, k - 1), rest>>

\* s < t in code point order, the order of ORDER BY ... ASC on text.
RECURSIVE LexLess(_, _)
LexLess(s, t) ==
    IF t = <<>> THEN FALSE
    ELSE IF s = <<>> THEN TRUE
    ELSE IF Head(s) /= Head(t) THEN Head(s) < Head(t)
    ELSE LexLess(Tail(s), Tail(t))

(***************************************************************************)
(* urllib.parse.quote and unquote, as cmd_start and receive_cover use them *)
(* (safe = "/", encoding utf-8, errors = "replace").                       *)
(***************************************************************************)
IsAlnum(c) == (c >= 48 /\ c <= 57) \/ (c >= 65 /\ c <= 90) \/ (c >= 97 /\ c <= 122)

\* Characters quote leaves alone: letters, digits, "_.-~" and the safe "/".
IsSafe(c) == IsAlnum(c) \/ c \in {95, 46, 45, 126, 47}

HexDigit(n) == IF n < 10 THEN 48 + n ELSE 55 + n

IsHex(c) == (c >= 48 /\ c <= 57) \/ (c >= 65 /\ c <= 70) \/ (c >= 97 /\ c <= 102)

HexVal(c) ==
    IF c <= 57 THEN c - 48 ELSE IF c <= 70 THEN c - 55 ELSE c - 87

\* quote with "%" among the safe characters.
RECURSIVE quote_percent_safe(_)
quote_percent_safe(s) ==
    IF s = <<>> THEN <<>>
    ELSE LET c == Head(s)
         IN  IF IsSafe(c) \/ c = 37 THEN <<c>> \o quote_percent_safe(Tail(s))
             ELSE <<37, HexDigit(c \div 16), HexDigit(c % 16)>>
                      \o quote_percent_safe(Tail(s))

RECURSIVE quote(_)
quote(s) ==
    IF s = <<>> THEN <<>>
    ELSE LET c == Head(s)
         IN  IF IsSafe(c) THEN <<c>> \o quote(Tail(s))
             ELSE <<37, HexDigit(c \div 16), HexDigit(c % 16)>> \o quote(Tail(s))

\* A decoded byte above the ASCII range that is not part of a valid UTF-8
\* sequence becomes U+FFFD (errors = "replace").
DecodedByte(b) == IF b < 128 THEN b ELSE 65533

RECURSIVE unquote(_)
unquote(s) ==
    IF s = <<>> THEN <<>>
    ELSE IF Head(s) = 37 /\ Len(s) >= 3 /\ IsHex(s[2]) /\ IsHex(s[3])
         THEN <<DecodedByte(16 * HexVal(s[2]) + HexVal(s[3]))>>
                  \o unquote(SubSeq(s, 4, Len(s)))
         ELSE <<Head(s)>> \o unquote(Tail(s))

(***************************************************************************)
(* The movies table and its two statements.                                *)
(***************************************************************************)
FileIds == {Str(<<"1">>), Str(<<"1", "0">>), Str(<<"2">>)}
CoverIds == {Str(<<"p">>), Str(<<"q">>)}
StoreCodes == {Str(<<"x">>), Str(<<"x", "\t", "y">>)}

Row(code, file_id, cover_id) ==
    [code |-> code, file_id |-> file_id, cover_id |-> cover_id]

\* PRIMARY KEY (code, file_id)
PrimaryKeyOk(rows) ==
    \A r1, r2 \in rows :
        (r1.code = r2.code /\ r1.file_id = r2.file_id) => r1 = r2

\* db_connect() either yields a connection or raises.
DbOutcomes == {"ok", "OperationalError"}

\* The insert preceded by DELETE FROM movies WHERE code = %s: a new upload
\* of a code replaces the rows of the code.
db_add_movie_replace_code(rows, code, file_id, cover_id, conn) ==
    IF conn /= "ok" THEN [rows |-> rows, error |-> conn]
    ELSE [rows |-> {r \in rows : r.code /= code}
                       \cup {Row(code, file_id, cover_id)},
          error |-> None]

\* The insert with ON CONFLICT ... DO UPDATE SET cover_id = EXCLUDED.cover_id.
db_add_movie_do_update(rows, code, file_id, cover_id, conn) ==
    IF conn /= "ok" THEN [rows |-> rows, error |-> conn]
    ELSE [rows |-> {r \in rows : ~(r.code = code /\ r.file_id = file_id)}
                       \cup {Row(code, file_id, cover_id)},
          error |-> None]

\* INSERT ... ON CONFLICT (code, file_id) DO NOTHING, then commit.
\* Result: the rows of the table afterwards and the exception raised, if any.
db_add_movie(rows, code, file_id, cover_id, conn) ==
    IF conn /= "ok" THEN [rows |-> rows, error |-> conn]
    ELSE IF \E r \in rows : r.code = code /\ r.file_id = file_id
         THEN [rows |-> rows, error |-> None]
         ELSE [rows |-> rows \cup {Row(code, file_id, cover_id)}, error |-> None]

\* The rows in the order of file_id read as a number: shorter first.
RECURSIVE OrderByFileIdNumeric(_)
OrderByFileIdNumeric(rs) ==
    IF rs = {} THEN <<>>
    ELSE LET m == CHOOSE r \in rs :
                      \A o \in rs :
                          \/ Len(r.file_id) < Len(o.file_id)
                          \/ /\ Len(r.file_id) = Len(o.file_id)
                             /\ ~LexLess(o.file_id, r.file_id)
         IN  <<m>> \o OrderByFileIdNumeric(rs \ {m})

\* The rows of a set in ascending file_id order (ORDER BY file_id ASC).
RECURSIVE OrderByFileId(_)
OrderByFileId(rs) ==
    IF rs = {} THEN <<>>
    ELSE LET m == CHOOSE r \in rs :
                      \A o \in rs : ~LexLess(o.file_id, r.file_id)
         IN  <<m>> \o OrderByFileId(rs \ {m})

\* SELECT file_id, cover_id FROM movies WHERE code = %s ORDER BY file_id ASC
db_get_movies(rows, code) ==
    LET sel == OrderByFileId({r \in rows : r.code = code})
    IN  [i \in 1..Len(sel) |-> <<sel[i].file_id, sel[i].cover_id>>]

(***************************************************************************)
(* Configuration and the inputs of the handlers.                           *)
(***************************************************************************)
ADMIN_ID == 1
DELETE_AFTER_SECONDS == 2

\* A second user, who is not the admin, and the absent from_user of a
\* message posted in the name of the source channel itself.
OtherUser == ADMIN_ID + 1
NoUser == ADMIN_ID - 1
Users == {ADMIN_ID, OtherUser}

ChannelLists == {[i \in 1..n |-> i] : n \in 0..MaxChannels}

\* What bot.get_chat_member yields: a status, or an exception.
MemberOutcomes ==
    {"creator", "administrator", "member", "restricted", "left", "kicked", "raise"}

\* message.reply_to_message: absent, or a message with neither a video nor a
\* document, with the video "1" or with the document "10" (<<>> stands for
\* an absent attribute).
ReplyTargets ==
    {[present |-> FALSE, video |-> <<>>, document |-> <<>>],
     [present |-> TRUE, video |-> <<>>, document |-> <<>>]}
    \cup {[present |-> TRUE, video |-> Str(<<"1">>), document |-> <<>>],
          [present |-> TRUE, video |-> <<>>, document |-> Str(<<"1", "0">>)]}

CmdAddmovie == Str(<<"/", "a", "d", "d", "m", "o", "v", "i", "e">>)
CmdStart == Str(<<"s", "t", "a", "r", "t">>)

\* message.text of the /addmovie messages explored: no argument, "  x ",
\* "x y" and "x<TAB>y".
AddTexts ==
    {CmdAddmovie \o r : r \in
        {<<>>, Str(<<" ", " ", "x", " ">>),
         Str(<<" ", "x", " ", "y">>), Str(<<" ", "x", "\t", "y">>)}}

VideoReply == [present |-> TRUE, video |-> Str(<<"1">>), document |-> <<>>]

AddMessage(from_user, in_source, reply_to, text) ==
    [from_user |-> from_user, in_source |-> in_source,
     reply_to |-> reply_to, text |-> text]

\* The /addmovie messages explored: every reply target and text from the
\* admin in a private chat; from another member of the source channel and
\* from the source channel itself (no from_user), a message without a code
\* and one with the code "x" in reply to a video.
AddMessages ==
    {AddMessage(ADMIN_ID, FALSE, r, x) : r \in ReplyTargets, x \in AddTexts}
    \cup {AddMessage(u, TRUE, VideoReply, CmdAddmovie \o x) :
              u \in {OtherUser, NoUser}, x \in {<<>>, Str(<<" ", " ", "x", " ">>)}}

\* message.command of the /start messages explored: no argument, the
\* arguments of the links of the stored codes, and one of an unknown code.
StartCommands ==
    {<<CmdStart>>}
    \cup {<<CmdStart, quote(c)>> : c \in StoreCodes}
    \cup {<<CmdStart, Str(<<" ", "y">>)>>}

\* The table as earlier runs of the bot may have left it.
InitStores ==
    {{},
     {Row(Str(<<"x">>), Str(<<"2">>), Str(<<"p">>)),
      Row(Str(<<"x">>), Str(<<"1", "0">>), Str(<<"q">>))}}

Range(f) == {f[i] : i \in DOMAIN f}

(***************************************************************************)
(* cmd_addmovie                                                            *)
(***************************************************************************)
\* Lines 150-158: the code of the message text, or the validation reply.
AddmovieCode(text) ==
    LET parts == split_maxsplit1(text)
        code == strip(parts[2])
    IN  IF Len(parts) < 2 THEN [ok |-> FALSE, code |-> <<>>, reply |-> "need_code"]
        ELSE IF code = <<>> \/ 32 \in Range(code)
             THEN [ok |-> FALSE, code |-> <<>>, reply |-> "invalid_code"]
             ELSE [ok |-> TRUE, code |-> code, reply |-> "send_cover"]

\* _pending_adds[key] = value
DictSet(d, key, value) ==
    [k \in DOMAIN d \cup {key} |-> IF k = key THEN value ELSE d[k]]

\* del _pending_adds[key]
DictDel(d, key) == [k \in DOMAIN d \ {key} |-> d[k]]

\* _pending_adds.get(key), as a sequence of no or one record
PendingOf(d, key) == IF key \in DOMAIN d THEN <<d[key]>> ELSE <<>>

\* What is kept of a cmd_addmovie invocation: the reply it sent and, when it
\* wrote a pending record, the record of the sender that was there before.
AddReply(reply, replaced) == [reply |-> reply, replaced |-> replaced]

NoReply == AddReply(None, <<>>)

\* The handler with the return of line 158 missing: after the invalid-code
\* reply it goes on to line 162 with the second part of the text as the code.
cmd_addmovie_no_return(from_user, in_source, reply_to, text) ==
    /\ from_user = ADMIN_ID \/ in_source
    /\ from_user = NoUser => in_source
    /\ LET parsed == AddmovieCode(text)
           file_id == IF reply_to.video /= <<>> THEN reply_to.video
                      ELSE reply_to.document
       IN  IF ~reply_to.present \/ (reply_to.video = <<>> /\ reply_to.document = <<>>)
           THEN /\ addLog' = AddReply("usage", <<>>)
                /\ UNCHANGED pending_adds
           ELSE IF ~parsed.ok
           THEN /\ addLog' = AddReply(parsed.reply, <<>>)
                /\ IF parsed.reply = "invalid_code" /\ from_user /= NoUser
                   THEN pending_adds' = DictSet(pending_adds, from_user,
                            [code |-> strip(split_maxsplit1(text)[2]),
                             file_id |-> file_id])
                   ELSE UNCHANGED pending_adds
           ELSE IF from_user = NoUser
           THEN \* message.from_user.id raises AttributeError
                /\ addLog' = AddReply("AttributeError", <<>>)
                /\ UNCHANGED pending_adds
           ELSE /\ pending_adds' = DictSet(pending_adds, from_user,
                                        [code |-> parsed.code, file_id |-> file_id])
                /\ addLog' = AddReply("send_cover", PendingOf(pending_adds, from_user))
    /\ UNCHANGED <<CHANNELS, movies, tasks, deleters, callLog, listed, link>>

\* The handler with line 162 reading _pending_adds[ADMIN_ID] = ...
cmd_addmovie_admin_key(from_user, in_source, reply_to, text) ==
    /\ from_user = ADMIN_ID \/ in_source
    /\ from_user = NoUser => in_source
    /\ LET parsed == AddmovieCode(text)
           file_id == IF reply_to.video /= <<>> THEN reply_to.video
                      ELSE reply_to.document
       IN  IF ~reply_to.present \/ (reply_to.video = <<>> /\ reply_to.document = <<>>)
           THEN /\ addLog' = AddReply("usage", <<>>)
                /\ UNCHANGED pending_adds
           ELSE IF ~parsed.ok
           THEN /\ addLog' = AddReply(parsed.reply, <<>>)
                /\ UNCHANGED pending_adds
           ELSE IF from_user = NoUser
           THEN \* message.from_user.id raises AttributeError
                /\ addLog' = AddReply("AttributeError", <<>>)
                /\ UNCHANGED pending_adds
           ELSE /\ pending_adds' = DictSet(pending_adds, ADMIN_ID,
                                        [code |-> parsed.code, file_id |-> file_id])
                /\ addLog' = AddReply("send_cover", PendingOf(pending_adds, ADMIN_ID))
    /\ UNCHANGED <<CHANNELS, movies, tasks, deleters, callLog, listed, link>>

\* The handler with line 162 reading _pending_adds.setdefault(...): a record
\* that is there is kept.
cmd_addmovie_setdefault(from_user, in_source, reply_to, text) ==
    /\ from_user = ADMIN_ID \/ in_source
    /\ from_user = NoUser => in_source
    /\ LET parsed == AddmovieCode(text)
           file_id == IF reply_to.video /= <<>> THEN reply_to.video
                      ELSE reply_to.document
       IN  IF ~reply_to.present \/ (reply_to.video = <<>> /\ reply_to.document = <<>>)
           THEN /\ addLog' = AddReply("usage", <<>>)
                /\ UNCHANGED pending_adds
           ELSE IF ~parsed.ok
           THEN /\ addLog' = AddReply(parsed.reply, <<>>)
                /\ UNCHANGED pending_adds
           ELSE IF from_user = NoUser
           THEN \* message.from_user.id raises AttributeError
                /\ addLog' = AddReply("AttributeError", <<>>)
                /\ UNCHANGED pending_adds
           ELSE /\ pending_adds' = IF from_user \in DOMAIN pending_adds THEN pending_adds
                                ELSE DictSet(pending_adds, from_user,
                                        [code |-> parsed.code, file_id |-> file_id])
                /\ addLog' = AddReply("send_cover", PendingOf(pending_adds, from_user))
    /\ UNCHANGED <<CHANNELS, movies, tasks, deleters, callLog, listed, link>>

\* The handler has no suspension point before its final reply: one step.
\* The timestamp field of the pending record is written and never read; it
\* is left out.
cmd_addmovie(from_user, in_source, reply_to, text) ==
    /\ from_user = ADMIN_ID \/ in_source
    /\ from_user = NoUser => in_source
    /\ LET parsed == AddmovieCode(text)
           file_id == IF reply_to.video /= <<>> THEN reply_to.video
                      ELSE reply_to.document
       IN  IF ~reply_to.present \/ (reply_to.video = <<>> /\ reply_to.document = <<>>)
           THEN /\ addLog' = AddReply("usage", <<>>)
                /\ UNCHANGED pending_adds
           ELSE IF ~parsed.ok
           THEN /\ addLog' = AddReply(parsed.reply, <<>>)
                /\ UNCHANGED pending_adds
           ELSE IF from_user = NoUser
           THEN \* message.from_user.id raises AttributeError
                /\ addLog' = AddReply("AttributeError", <<>>)
                /\ UNCHANGED pending_adds
           ELSE /\ pending_adds' = DictSet(pending_adds, from_user,
                                        [code |-> parsed.code, file_id |-> file_id])
                /\ addLog' = AddReply("send_cover", PendingOf(pending_adds, from_user))
    /\ UNCHANGED <<CHANNELS, movies, tasks, deleters, callLog, listed, link>>

(***************************************************************************)
(* Handler invocations with suspension points.                             *)
(***************************************************************************)
Msg(kind, ref) == [kind |-> kind, ref |-> ref]

NewTask(kind, user) ==
    [kind |-> kind, pc |-> "done", user |-> user, code |-> <<>>,
     file_id |-> <<>>, cover_id |-> <<>>, rows |-> <<>>, answers |-> <<>>,
     in_all |-> None, idx |-> 0, out |-> <<>>, exc |-> None]

DeepLinkBase ==
    Str(<<"h", "t", "t", "p", "s", ":", "/", "/", "t", ".", "m", "e", "/",
          "b", "o", "t", "?", "s", "t", "a", "r", "t", "=">>)

\* The link with the code put in as it is.
DeepLinkUnquoted(code) == DeepLinkBase \o code

\* f"https://t.me/{me.username}?start={quote(code)}"
DeepLink(code) == DeepLinkBase \o quote(code)

(***************************************************************************)
(* receive_cover                                                           *)
(***************************************************************************)
\* The handler waiting for a "mode" field in the pending record before it
\* takes a cover: a record without one is treated as not ready.
receive_cover_needs_mode(cover_id) ==
    /\ Len(tasks) < MaxCovers
    /\ LET admin_id == ADMIN_ID
           t == NewTask("cover", admin_id)
       IN  IF admin_id \notin DOMAIN pending_adds
              \/ "mode" \notin DOMAIN pending_adds[admin_id]
           THEN tasks' = Append(tasks, t)
           ELSE tasks' = Append(tasks,
                    [t EXCEPT !.pc = "db",
                              !.code = pending_adds[admin_id].code,
                              !.file_id = pending_adds[admin_id].file_id,
                              !.cover_id = cover_id])
    /\ UNCHANGED <<CHANNELS, movies, pending_adds, deleters, addLog,
                   callLog, listed, link>>

\* The handler without filters.user(ADMIN_ID) at line 166: a photo of any
\* user is handled, under that user's id.
receive_cover_any_user(cover_id) ==
    /\ Len(tasks) < MaxCovers
    /\ \E admin_id \in Users :
           LET t == NewTask("cover", admin_id)
           IN  IF admin_id \notin DOMAIN pending_adds
               THEN tasks' = Append(tasks, t)
               ELSE tasks' = Append(tasks,
                        [t EXCEPT !.pc = "db",
                                  !.code = pending_adds[admin_id].code,
                                  !.file_id = pending_adds[admin_id].file_id,
                                  !.cover_id = cover_id])
    /\ UNCHANGED <<CHANNELS, movies, pending_adds, deleters, addLog,
                   callLog, listed, link>>

\* Lines 168-177: up to the suspension in async_db_add_movie.
receive_cover(cover_id) ==
    /\ Len(tasks) < MaxCovers
    /\ LET admin_id == ADMIN_ID
           t == NewTask("cover", admin_id)
       IN  IF admin_id \notin DOMAIN pending_adds
           THEN tasks' = Append(tasks, t)
           ELSE tasks' = Append(tasks,
                    [t EXCEPT !.pc = "db",
                              !.code = pending_adds[admin_id].code,
                              !.file_id = pending_adds[admin_id].file_id,
                              !.cover_id = cover_id])
    /\ UNCHANGED <<CHANNELS, movies, pending_adds, deleters, addLog,
                   callLog, listed, link>>

\* The handler with the pending record deleted before the insert is awaited.
CoverDbDoneDelFirst(t, conn) ==
    /\ tasks[t].kind = "cover" /\ tasks[t].pc = "db"
    /\ LET me == tasks[t]
           res == db_add_movie(movies, me.code, me.file_id, me.cover_id, conn)
       IN  /\ movies' = res.rows
           /\ pending_adds' = DictDel(pending_adds, me.user)
           /\ IF res.error /= None
              THEN tasks' = [tasks EXCEPT ![t].pc = "done",
                                ![t].exc = res.error,
                                ![t].out = Append(@, Msg("failed", <<>>))]
              ELSE tasks' = [tasks EXCEPT ![t].pc = "get_me"]
    /\ UNCHANGED <<CHANNELS, deleters, addLog, callLog, listed, link>>

\* Lines 177-178 and 182-184: the insert runs, the handler resumes and
\* deletes the pending record, or handles the exception.
CoverDbDone(t, conn) ==
    /\ tasks[t].kind = "cover" /\ tasks[t].pc = "db"
    /\ LET me == tasks[t]
           res == db_add_movie(movies, me.code, me.file_id, me.cover_id, conn)
       IN  /\ movies' = res.rows
           /\ IF res.error /= None
              THEN /\ tasks' = [tasks EXCEPT ![t].pc = "done",
                                   ![t].exc = res.error,
                                   ![t].out = Append(@, Msg("failed", <<>>))]
                   /\ UNCHANGED pending_adds
              ELSE IF me.user \notin DOMAIN pending_adds
              THEN \* del raises KeyError
                   /\ tasks' = [tasks EXCEPT ![t].pc = "done",
                                   ![t].exc = "KeyError",
                                   ![t].out = Append(@, Msg("failed", <<>>))]
                   /\ UNCHANGED pending_adds
              ELSE /\ pending_adds' = DictDel(pending_adds, me.user)
                   /\ tasks' = [tasks EXCEPT ![t].pc = "get_me"]
    /\ UNCHANGED <<CHANNELS, deleters, addLog, callLog, listed, link>>

\* Lines 179-184: bot.get_me() returns and the link is sent, or it raises.
CoverGetMe(t, ok) ==
    /\ tasks[t].kind = "cover" /\ tasks[t].pc = "get_me"
    /\ tasks' = [tasks EXCEPT ![t].pc = "done",
                    ![t].exc = IF ok THEN None ELSE "RPCError",
                    ![t].out = Append(@, IF ok THEN Msg("saved", DeepLink(tasks[t].code))
                                         ELSE Msg("failed", <<>>))]
    /\ UNCHANGED <<CHANNELS, movies, pending_adds, deleters, addLog,
                   callLog, listed, link>>

(***************************************************************************)
(* cmd_start, user_in_all_channels and delete_later                        *)
(***************************************************************************)
\* Line 205
StartCode(command) == unquote(strip(command[2]))

\* Lines 201-207: up to the suspension in async_db_get_movies.
cmd_start(user, command) ==
    /\ Len(tasks) < MaxStarts
    /\ LET t == NewTask("start", user)
       IN  IF Len(command) = 1
           THEN tasks' = Append(tasks, [t EXCEPT !.out = <<Msg("welcome", <<>>)>>])
           ELSE tasks' = Append(tasks, [t EXCEPT !.pc = "db",
                                                 !.code = StartCode(command)])
    /\ UNCHANGED <<CHANNELS, movies, pending_adds, deleters, addLog,
                   callLog, listed, link>>

\* The handler without the "not rows" test of line 213.
StartLookupNoEmptyTest(t, conn) ==
    /\ tasks[t].kind = "start" /\ tasks[t].pc = "db"
    /\ LET rows == db_get_movies(movies, tasks[t].code)
       IN  IF conn /= "ok"
           THEN tasks' = [tasks EXCEPT ![t].pc = "done", ![t].exc = conn,
                             ![t].out = Append(@, Msg("db_error", <<>>))]
           ELSE IF CHANNELS = <<>>
           THEN tasks' = [tasks EXCEPT ![t].rows = rows, ![t].in_all = "True",
                             ![t].pc = IF rows = <<>> THEN "done" ELSE "cover",
                             ![t].idx = 1]
           ELSE tasks' = [tasks EXCEPT ![t].rows = rows, ![t].pc = "gate"]
    /\ UNCHANGED <<CHANNELS, movies, pending_adds, deleters, addLog,
                   callLog, listed, link>>

\* Lines 207-217: the select returns or raises; with rows, the handler enters
\* user_in_all_channels, which returns at once when CHANNELS is empty.
StartLookup(t, conn) ==
    /\ tasks[t].kind = "start" /\ tasks[t].pc = "db"
    /\ LET rows == db_get_movies(movies, tasks[t].code)
       IN  IF conn /= "ok"
           THEN tasks' = [tasks EXCEPT ![t].pc = "done", ![t].exc = conn,
                             ![t].out = Append(@, Msg("db_error", <<>>))]
           ELSE IF rows = <<>>
           THEN tasks' = [tasks EXCEPT ![t].pc = "done",
                             ![t].out = Append(@, Msg("not_found", <<>>))]
           ELSE IF CHANNELS = <<>>
           THEN tasks' = [tasks EXCEPT ![t].rows = rows, ![t].in_all = "True",
                             ![t].pc = "cover", ![t].idx = 1]
           ELSE tasks' = [tasks EXCEPT ![t].rows = rows, ![t].pc = "gate"]
    /\ UNCHANGED <<CHANNELS, movies, pending_adds, deleters, addLog,
                   callLog, listed, link>>

\* The test with an exception of get_chat_member counted as membership.
IsMemberStatusFailOpen(answer) ==
    answer \in {"member", "administrator", "creator", "raise"}

IsMemberStatus(answer) == answer \in {"member", "administrator", "creator"}

\* The loop with line 217 reading "if await user_in_all_channels(...)".
user_in_all_channels_inverted(t, answer) ==
    /\ tasks[t].kind = "start" /\ tasks[t].pc = "gate"
    /\ LET ch == CHANNELS[Len(tasks[t].answers) + 1]
           answers == Append(tasks[t].answers,
                             [channel |-> ch, user |-> tasks[t].user, answer |-> answer])
       IN  IF ~IsMemberStatus(answer)
           THEN tasks' = [tasks EXCEPT ![t].answers = answers,
                             ![t].in_all = "False", ![t].pc = "cover", ![t].idx = 1]
           ELSE IF Len(answers) = Len(CHANNELS)
           THEN tasks' = [tasks EXCEPT ![t].answers = answers,
                             ![t].in_all = "True", ![t].pc = "locked"]
           ELSE tasks' = [tasks EXCEPT ![t].answers = answers]
    /\ UNCHANGED <<CHANNELS, movies, pending_adds, deleters, addLog,
                   callLog, listed, link>>

\* Lines 188-196: one iteration of the loop of user_in_all_channels: the
\* answer of bot.get_chat_member(ch, user_id) for the next channel arrives.
\* answers is the log of the queries the call has made.
user_in_all_channels(t, answer) ==
    /\ tasks[t].kind = "start" /\ tasks[t].pc = "gate"
    /\ LET ch == CHANNELS[Len(tasks[t].answers) + 1]
           answers == Append(tasks[t].answers,
                             [channel |-> ch, user |-> tasks[t].user, answer |-> answer])
       IN  IF ~IsMemberStatus(answer)
           THEN tasks' = [tasks EXCEPT ![t].answers = answers,
                             ![t].in_all = "False", ![t].pc = "locked"]
           ELSE IF Len(answers) = Len(CHANNELS)
           THEN tasks' = [tasks EXCEPT ![t].answers = answers,
                             ![t].in_all = "True", ![t].pc = "cover", ![t].idx = 1]
           ELSE tasks' = [tasks EXCEPT ![t].answers = answers]
    /\ UNCHANGED <<CHANNELS, movies, pending_adds, deleters, addLog,
                   callLog, listed, link>>

\* Lines 218-230: get_me and reply_photo of the first row's cover; either
\* may raise, and then nothing is sent and the exception leaves the handler.
StartSendLocked(t, ok) ==
    /\ tasks[t].kind = "start" /\ tasks[t].pc = "locked"
    /\ tasks' = [tasks EXCEPT ![t].answers = <<>>,
                    ![t].pc = IF ok THEN "done" ELSE "raised",
                    ![t].exc = IF ok THEN None ELSE "RPCError",
                    ![t].out = IF ok THEN Append(@, Msg("locked", tasks[t].rows[1][2]))
                               ELSE @]
    /\ UNCHANGED <<CHANNELS, movies, pending_adds, deleters, addLog,
                   callLog, listed, link>>

\* The send with the cover of the first row, as in the locked branch.
StartSendCoverFirstRow(t, ok) ==
    /\ tasks[t].kind = "start" /\ tasks[t].pc = "cover"
    /\ tasks' = [tasks EXCEPT ![t].answers = <<>>,
                    ![t].pc = IF ok THEN "video" ELSE "raised",
                    ![t].exc = IF ok THEN None ELSE "RPCError",
                    ![t].out = IF ok THEN Append(@, Msg("cover", tasks[t].rows[1][2]))
                               ELSE @]
    /\ UNCHANGED <<CHANNELS, movies, pending_adds, deleters, addLog,
                   callLog, listed, link>>

\* Line 234: reply_photo of the cover of row idx.
StartSendCover(t, ok) ==
    /\ tasks[t].kind = "start" /\ tasks[t].pc = "cover"
    /\ tasks' = [tasks EXCEPT ![t].answers = <<>>,
                    ![t].pc = IF ok THEN "video" ELSE "raised",
                    ![t].exc = IF ok THEN None ELSE "RPCError",
                    ![t].out = IF ok THEN Append(@, Msg("cover", tasks[t].rows[tasks[t].idx][2]))
                               ELSE @]
    /\ UNCHANGED <<CHANNELS, movies, pending_adds, deleters, addLog,
                   callLog, listed, link>>

\* asyncio.create_task(delete_later(chat_id, message_id, delay)) for message
\* number msg of the messages task t has sent.
\* attempts counts the delete_messages calls the task has made.
Deleter(t, msg) ==
    [task |-> t, msg |-> msg, delay |-> DELETE_AFTER_SECONDS, pc |-> "sleep",
     attempts |-> 0]

\* Lines 235-245: reply_video of the file of row idx, then the two
\* create_task calls, then the next iteration.
StartSendVideo(t, ok) ==
    /\ tasks[t].kind = "start" /\ tasks[t].pc = "video"
    /\ IF ok
       THEN LET me == tasks[t]
                out == Append(me.out, Msg("video", me.rows[me.idx][1]))
            IN  /\ tasks' = [tasks EXCEPT ![t].out = out, ![t].idx = me.idx + 1,
                                ![t].pc = IF me.idx = Len(me.rows) THEN "done"
                                          ELSE "cover"]
                /\ deleters' = deleters \cup {Deleter(t, Len(out) - 1),
                                              Deleter(t, Len(out))}
       ELSE /\ tasks' = [tasks EXCEPT ![t].pc = "raised", ![t].exc = "RPCError"]
            /\ UNCHANGED deleters
    /\ UNCHANGED <<CHANNELS, movies, pending_adds, addLog, callLog, listed, link>>

\* One second passes for every sleeping delete_later task.
Tick ==
    /\ \E d \in deleters : d.pc = "sleep" /\ d.delay > 0
    /\ deleters' = {IF d.pc = "sleep" /\ d.delay > 0
                    THEN [d EXCEPT !.delay = d.delay - 1] ELSE d : d \in deleters}
    /\ UNCHANGED <<CHANNELS, movies, pending_adds, tasks, addLog,
                   callLog, listed, link>>

\* The task with the call in a loop that runs until the deletion succeeds.
delete_later_retry(d, ok) ==
    /\ d \in deleters /\ d.pc = "sleep" /\ d.delay = 0
    /\ deleters' = (deleters \ {d})
                       \cup {[d EXCEPT !.pc = IF ok THEN "deleted" ELSE "sleep",
                                       !.attempts = d.attempts + 1]}
    /\ UNCHANGED <<CHANNELS, movies, pending_adds, tasks, addLog,
                   callLog, listed, link>>

\* Lines 238-242: the sleep is over; one delete_messages call, whose
\* exception is swallowed; the task ends either way.
delete_later(d, ok) ==
    /\ d \in deleters /\ d.pc = "sleep" /\ d.delay = 0
    /\ deleters' = (deleters \ {d})
                       \cup {[d EXCEPT !.pc = IF ok THEN "deleted" ELSE "failed",
                                       !.attempts = d.attempts + 1]}
    /\ UNCHANGED <<CHANNELS, movies, pending_adds, tasks, addLog,
                   callLog, listed, link>>

(***************************************************************************)
(* The bot.                                                                *)
(***************************************************************************)
NoListed == [code |-> <<>>, rows |-> <<>>, called |-> FALSE]
NoLink == [stage |-> "off", text |-> <<>>, code |-> <<>>, url |-> <<>>, looked |-> <<>>]

Init ==
    /\ CHANNELS \in ChannelLists
    /\ movies \in InitStores
    /\ pending_adds = <<>>
    /\ tasks = <<>>
    /\ deleters = {}
    /\ addLog = NoReply
    /\ callLog = <<>>
    /\ listed = NoListed
    /\ link = NoLink

\* The upload flow: /addmovie messages and the admin's photos.
InitUpload == Init /\ CHANNELS = <<>> /\ movies = {}

NextUpload ==
    \/ \E m \in AddMessages :
           cmd_addmovie(m.from_user, m.in_source, m.reply_to, m.text)
    \/ \E c \in CoverIds : receive_cover(c)
    \/ \E t \in DOMAIN tasks, conn \in DbOutcomes : CoverDbDone(t, conn)
    \/ \E t \in DOMAIN tasks, ok \in BOOLEAN : CoverGetMe(t, ok)

SpecUpload == InitUpload /\ [][NextUpload]_vars

\* The pending map: the upload flow with every photo carrying the same
\* file id, which plays no part in what happens to _pending_adds.
NextPending ==
    \/ \E m \in AddMessages :
           cmd_addmovie(m.from_user, m.in_source, m.reply_to, m.text)
    \/ receive_cover(Str(<<"p">>))
    \/ \E t \in DOMAIN tasks, conn \in DbOutcomes : CoverDbDone(t, conn)
    \/ \E t \in DOMAIN tasks, ok \in BOOLEAN : CoverGetMe(t, ok)

SpecPending == InitUpload /\ [][NextPending]_vars

\* The delivery flow: /start messages and the deletion tasks.
NextDelivery ==
    \/ \E u \in Users, c \in StartCommands : cmd_start(u, c)
    \/ \E t \in DOMAIN tasks, conn \in DbOutcomes : StartLookup(t, conn)
    \/ \E t \in DOMAIN tasks, a \in MemberOutcomes : user_in_all_channels(t, a)
    \/ \E t \in DOMAIN tasks, ok \in BOOLEAN : StartSendLocked(t, ok)
    \/ \E t \in DOMAIN tasks, ok \in BOOLEAN : StartSendCover(t, ok)
    \/ \E t \in DOMAIN tasks, ok \in BOOLEAN : StartSendVideo(t, ok)
    \/ Tick
    \/ \E d \in deleters, ok \in BOOLEAN : delete_later(d, ok)

SpecDelivery == Init /\ [][NextDelivery]_vars

\* The whole bot over a table that holds the two rows of code "x", with
\* one configured channel: the admin's /addmovie for code "x" in reply to
\* the video "1" and to the document "10" (the file id of a stored row),
\* the admin's photos, and /start x of a user, interleaved.
BotAddMessages ==
    {m \in AddMessages :
        /\ m.from_user = ADMIN_ID
        /\ m.reply_to.present /\ (m.reply_to.video /= <<>> \/ m.reply_to.document /= <<>>)
        /\ m.text = CmdAddmovie \o Str(<<" ", " ", "x", " ">>)}

InitBot == Init /\ Len(CHANNELS) = 1 /\ movies /= {}

NextBot ==
    \/ \E m \in BotAddMessages :
           cmd_addmovie(m.from_user, m.in_source, m.reply_to, m.text)
    \/ \E c \in CoverIds : receive_cover(c)
    \/ \E t \in DOMAIN tasks, conn \in DbOutcomes : CoverDbDone(t, conn)
    \/ \E t \in DOMAIN tasks : CoverGetMe(t, TRUE)
    \/ cmd_start(OtherUser, <<CmdStart, Str(<<"x">>)>>)
    \/ \E t \in DOMAIN tasks, conn \in DbOutcomes : StartLookup(t, conn)
    \/ \E t \in DOMAIN tasks, a \in {"member", "left"} : user_in_all_channels(t, a)
    \/ \E t \in DOMAIN tasks : StartSendLocked(t, TRUE)
    \/ \E t \in DOMAIN tasks, ok \in BOOLEAN : StartSendCover(t, ok)
    \/ \E t \in DOMAIN tasks, ok \in BOOLEAN : StartSendVideo(t, ok)
    \/ Tick
    \/ \E d \in deleters, ok \in BOOLEAN : delete_later(d, ok)

SpecBot == InitBot /\ [][NextBot]_vars

(***************************************************************************)
(* The Content Store on its own: any sequence of db_add_movie calls,       *)
(* with db_get_movies calls in between.                                    *)
(***************************************************************************)
ListCodes == StoreCodes \cup {Str(<<"y">>)}

InitStore ==
    /\ CHANNELS = <<>>
    /\ movies = {}
    /\ pending_adds = <<>>
    /\ tasks = <<>>
    /\ deleters = {}
    /\ addLog = NoReply
    /\ callLog = <<>>
    /\ listed = NoListed
    /\ link = NoLink

StoreAdd(code, file_id, cover_id, conn) ==
    /\ Len(callLog) < MaxCalls
    /\ LET res == db_add_movie(movies, code, file_id, cover_id, conn)
       IN  /\ movies' = res.rows
           /\ callLog' = Append(callLog,
                  [code |-> code, file_id |-> file_id, cover_id |-> cover_id,
                   conn |-> conn, error |-> res.error])
    /\ listed' = NoListed
    /\ UNCHANGED <<botVars, link>>

StoreList(code) ==
    /\ listed' = [code |-> code, rows |-> db_get_movies(movies, code), called |-> TRUE]
    /\ UNCHANGED <<botVars, movies, callLog, link>>

NextStore ==
    \/ \E c \in StoreCodes, f \in FileIds, p \in CoverIds, conn \in DbOutcomes :
           StoreAdd(c, f, p, conn)
    \/ \E c \in ListCodes : StoreList(c)

SpecStore == InitStore /\ [][NextStore]_vars

(***************************************************************************)
(* The deep link on its own: an /addmovie text, the code cmd_addmovie      *)
(* takes from it, the link receive_cover emits for the code, and the code  *)
(* cmd_start looks up when the link's argument comes back.                 *)
(***************************************************************************)
LinkChars == {Ascii(c) : c \in {"x", "%", "&", "2", "5", " ", "\t"}}

RECURSIVE SeqsUpTo(_, _)
SeqsUpTo(S, n) ==
    IF n = 0 THEN {<<>>}
    ELSE LET shorter == SeqsUpTo(S, n - 1)
         IN  shorter \cup {Append(q, c) : q \in shorter, c \in S}

LinkTexts == {CmdAddmovie \o Str(<<" ">>) \o b : b \in SeqsUpTo(LinkChars, MaxCodeLen)}

InitLink ==
    /\ CHANNELS = <<>>
    /\ movies = {}
    /\ pending_adds = <<>>
    /\ tasks = <<>>
    /\ deleters = {}
    /\ addLog = NoReply
    /\ callLog = <<>>
    /\ listed = NoListed
    /\ \E x \in LinkTexts : link = [NoLink EXCEPT !.stage = "text", !.text = x]

\* cmd_addmovie accepts the code of the text or rejects the text.
LinkParse ==
    /\ link.stage = "text"
    /\ LET parsed == AddmovieCode(link.text)
       IN  link' = IF parsed.ok
                   THEN [link EXCEPT !.stage = "code", !.code = parsed.code]
                   ELSE [link EXCEPT !.stage = "rejected"]
    /\ UNCHANGED <<botVars, movies, callLog, listed>>

\* receive_cover emits the link of the code.
LinkEmit ==
    /\ link.stage = "code"
    /\ link' = [link EXCEPT !.stage = "url", !.url = DeepLink(link.code)]
    /\ UNCHANGED <<botVars, movies, callLog, listed>>

\* The argument of the link comes back as message.command[1] of a /start.
LinkStart ==
    /\ link.stage = "url"
    /\ LET arg == SubSeq(link.url, Len(DeepLinkBase) + 1, Len(link.url))
       IN  link' = [link EXCEPT !.stage = "looked",
                                !.looked = StartCode(<<CmdStart, arg>>)]
    /\ UNCHANGED <<botVars, movies, callLog, listed>>

NextLink == LinkParse \/ LinkEmit \/ LinkStart

SpecLink == InitLink /\ [][NextLink]_vars

(***************************************************************************)
(* Properties.                                                             *)
(***************************************************************************)
SameKey(a, b) == a.code = b.code /\ a.file_id = b.file_id

Min(S) == CHOOSE x \in S : \A y \in S : x <= y

\* s comes before t in lexicographic order: s is a proper prefix of t, or
\* at the first position where they differ s has the smaller character.
StrictlyBefore(s, t) ==
    \E k \in 0..Len(s) :
        /\ k <= Len(t)
        /\ \A i \in 1..k : s[i] = t[i]
        /\ \/ k = Len(s) /\ k < Len(t)
           \/ k < Len(s) /\ k < Len(t) /\ s[k + 1] < t[k + 1]

\* C3: db_add_movie is idempotent on its key. After any calls, every call
\* that reached the database returned without an exception, and the table
\* holds exactly one row for the call's (code, file_id), whose cover is that
\* of the first such call for the key.
C3_AddEntryIdempotent ==
    \A j \in DOMAIN callLog :
        LET c == callLog[j]
            reached == {i \in 1..j : SameKey(callLog[i], c) /\ callLog[i].conn = "ok"}
        IN  c.conn = "ok" =>
                /\ c.error = None
                /\ {r \in movies : SameKey(r, c)}
                       = {Row(c.code, c.file_id, callLog[Min(reached)].cover_id)}

\* Two calls with the same key and different covers both reached the
\* database, and one row is stored for the key.
C3_Witness ==
    \E i, j \in DOMAIN callLog :
        /\ i < j
        /\ SameKey(callLog[i], callLog[j])
        /\ callLog[i].conn = "ok" /\ callLog[j].conn = "ok"
        /\ callLog[i].cover_id /= callLog[j].cover_id
        /\ Cardinality({r \in movies : SameKey(r, callLog[j])}) = 1

\* C4: db_get_movies(code) returns every row of the code, only those, each
\* once, in ascending lexicographic order of file_id, whatever the order
\* of the inserts.
C4_ListSorted ==
    listed.called =>
        LET rs == listed.rows
            sel == {r \in movies : r.code = listed.code}
        IN  /\ Len(rs) = Cardinality(sel)
            /\ {rs[i] : i \in 1..Len(rs)} = {<<r.file_id, r.cover_id>> : r \in sel}
            /\ \A i \in 1..(Len(rs) - 1) : StrictlyBefore(rs[i][1], rs[i + 1][1])

\* Three rows of one code were inserted, a later one sorting before an
\* earlier one, and the code was listed.
C4_Witness ==
    /\ listed.called
    /\ Len(listed.rows) = 3
    /\ \E i, j \in DOMAIN callLog :
           /\ i < j
           /\ callLog[i].code = listed.code /\ callLog[j].code = listed.code
           /\ callLog[i].conn = "ok" /\ callLog[j].conn = "ok"
           /\ StrictlyBefore(callLog[j].file_id, callLog[i].file_id)

\* C9: the code cmd_start looks up from the argument of the link emitted
\* for a code that cmd_addmovie accepted is that code.
C9_DeepLinkRoundTrip ==
    link.stage = "looked" => link.looked = link.code

\* A code with both "%" and "&" went through the link and came back.
C9_Witness ==
    /\ link.stage = "looked"
    /\ 37 \in Range(link.code)
    /\ 38 \in Range(link.code)
    /\ link.url /= DeepLinkBase \o link.code

StartTasks == {t \in DOMAIN tasks : tasks[t].kind = "start"}
CoverTasks == {t \in DOMAIN tasks : tasks[t].kind = "cover"}

Kinds(out) == {out[i].kind : i \in DOMAIN out}

CodeRows(rows, code) == {r \in rows : r.code = code}

\* C1: a /start invocation sends a video (or a cover of the delivery) only
\* if its own membership check returned true; when the check returned false
\* it sends nothing but the locked photo, the cover of the first row.
C1_VideoOnlyToMembers ==
    \A t \in StartTasks :
        LET me == tasks[t]
        IN  /\ ("video" \in Kinds(me.out) \/ "cover" \in Kinds(me.out))
                   => me.in_all = "True"
            /\ me.in_all = "False"
                   => /\ me.out \in {<<>>, <<Msg("locked", me.rows[1][2])>>}
                      /\ \A d \in deleters : d.task /= t

\* A check returned false and the locked photo was the only message sent.
C1_Witness ==
    \E t \in StartTasks :
        /\ tasks[t].in_all = "False"
        /\ tasks[t].pc = "done"
        /\ Len(tasks[t].out) = 1
        /\ tasks[t].out[1].kind = "locked"

\* C2: user_in_all_channels asks about the requesting user, channel by
\* channel in the configured order, and returns true if and only if every
\* configured channel was asked and answered member, administrator or
\* creator; any other status or an exception makes it return false.
C2_GateIffMemberOfAll ==
    \A t \in StartTasks :
        LET me == tasks[t]
            q == me.answers
            good == {i \in DOMAIN q : q[i].answer \in {"member", "administrator", "creator"}}
        IN  /\ Len(q) <= Len(CHANNELS)
            /\ \A i \in DOMAIN q : q[i].user = me.user /\ q[i].channel = CHANNELS[i]
            /\ me.pc = "gate" => me.in_all = None /\ good = DOMAIN q
            /\ me.in_all \in {None, "True", "False"}
            /\ (me.in_all /= None /\ (q /= <<>> \/ CHANNELS = <<>>))
                   => (me.in_all = "True"
                           <=> (Len(q) = Len(CHANNELS) /\ good = DOMAIN q))

\* The first channel answered with a member status, the second query raised,
\* and the check returned false.
C2_Witness ==
    \E t \in StartTasks :
        /\ tasks[t].in_all = "False"
        /\ Len(tasks[t].answers) = 2
        /\ tasks[t].answers[1].answer = "member"
        /\ tasks[t].answers[2].answer = "raise"

\* C5: for a code without rows db_get_movies returns the empty sequence, and
\* a /start for the code ends after the lookup: with the "not found" reply
\* when the select returned, with the internal-error reply when it raised;
\* no membership query is made and no photo or video is sent.
C5_UnknownCodeNotFound ==
    \A t \in StartTasks :
        LET me == tasks[t]
        IN  (/\ me.pc /= "db"
             /\ "welcome" \notin Kinds(me.out)
             /\ CodeRows(movies, me.code) = {})
                => /\ db_get_movies(movies, me.code) = <<>>
                   /\ me.pc = "done"
                   /\ me.exc = None => me.out = <<Msg("not_found", <<>>)>>
                   /\ me.exc /= None => me.out = <<Msg("db_error", <<>>)>>
                   /\ me.in_all = None /\ me.answers = <<>>
                   /\ \A d \in deleters : d.task /= t

\* A /start for a code without rows, in a table that has rows, ended with
\* the "not found" reply.
C5_Witness ==
    \E t \in StartTasks :
        /\ movies /= {}
        /\ CodeRows(movies, tasks[t].code) = {}
        /\ tasks[t].pc = "done"
        /\ tasks[t].out = <<Msg("not_found", <<>>)>>

\* The row of a code that has i - 1 rows of the code before it.
EntryAt(code, i) ==
    CHOOSE r \in CodeRows(movies, code) :
        Cardinality({o \in CodeRows(movies, code) :
                        StrictlyBefore(o.file_id, r.file_id)}) = i - 1

\* C6: what a /start invocation that passed the check has sent is, at every
\* moment, a prefix of cover 1, video 1, cover 2, video 2, ... over the rows
\* of the code in ascending file_id order, and it is all of it when the
\* handler returns.
C6_DeliveryOrder ==
    \A t \in StartTasks :
        LET me == tasks[t]
            n == Cardinality(CodeRows(movies, me.code))
        IN  me.in_all = "True" =>
                /\ Len(me.out) <= 2 * n
                /\ \A k \in DOMAIN me.out :
                       LET r == EntryAt(me.code, (k + 1) \div 2)
                       IN  me.out[k] = IF k % 2 = 1 THEN Msg("cover", r.cover_id)
                                       ELSE Msg("video", r.file_id)
                /\ me.pc = "done" => Len(me.out) = 2 * n

\* Both entries of a code were delivered: four messages.
C6_Witness ==
    \E t \in StartTasks :
        /\ tasks[t].in_all = "True"
        /\ tasks[t].pc = "done"
        /\ Len(tasks[t].out) = 4

\* C7 (as claimed): once a /start invocation has ended, every cover and
\* video it has sent has a delete_later task.
C7_EverySentMessageScheduled ==
    \A t \in StartTasks :
        tasks[t].pc \in {"done", "raised"} =>
            \A k \in DOMAIN tasks[t].out :
                tasks[t].out[k].kind \in {"cover", "video"}
                    => \E d \in deleters : d.task = t /\ d.msg = k

EndsWith(s, suffix) ==
    /\ Len(suffix) <= Len(s)
    /\ SubSeq(s, Len(s) - Len(suffix) + 1, Len(s)) = suffix

Blanks == {<<>>, <<32>>, <<32, 32>>}

\* C8: the upload scenario, step by step. The admin's valid /addmovie in
\* reply to a video records the code and the video's file id; the admin's
\* photo takes both from the pending record; when the insert returns, a code
\* that had no row has exactly the row (code, video, photo) and the admin's
\* pending record is gone; the reply is the link ending in
\* ?start=<url-encoded code>.
C8_UploadScenario ==
    [][/\ (addLog'.reply = "send_cover" /\ tasks' = tasks) =>
              \A r \in {v \in ReplyTargets : v.video /= <<>>}, x \in AddTexts :
                  cmd_addmovie(ADMIN_ID, FALSE, r, x)
                      => /\ ADMIN_ID \in DOMAIN pending_adds'
                         /\ pending_adds'[ADMIN_ID].file_id = r.video
                         /\ \E a \in Blanks \ {<<>>}, b \in Blanks :
                                x = CmdAddmovie \o a \o pending_adds'[ADMIN_ID].code \o b
       /\ (Len(tasks') = Len(tasks) + 1 /\ ADMIN_ID \in DOMAIN pending_adds)
              => LET new == tasks'[Len(tasks')]
                 IN  /\ new.pc = "db"
                     /\ new.code = pending_adds[ADMIN_ID].code
                     /\ new.file_id = pending_adds[ADMIN_ID].file_id
                     /\ new.cover_id \in CoverIds
       /\ \A t \in CoverTasks :
              /\ (tasks[t].pc = "db" /\ tasks'[t].pc = "get_me")
                     => /\ ADMIN_ID \notin DOMAIN pending_adds'
                        /\ CodeRows(movies, tasks[t].code) = {}
                               => CodeRows(movies', tasks[t].code)
                                      = {Row(tasks[t].code, tasks[t].file_id,
                                             tasks[t].cover_id)}
              /\ (tasks[t].pc = "get_me" /\ tasks'[t].pc = "done"
                      /\ tasks'[t].exc = None)
                     => /\ Len(tasks'[t].out) = 1
                        /\ tasks'[t].out[1].kind = "saved"
                        /\ EndsWith(tasks'[t].out[1].ref,
                                    Str(<<"?", "s", "t", "a", "r", "t", "=">>)
                                        \o quote(tasks[t].code))
      ]_vars

\* The scenario ran to its end for the code "x<TAB>y": one row, no pending
\* record, the link sent.
C8_Witness ==
    \E t \in CoverTasks :
        /\ tasks[t].pc = "done" /\ tasks[t].exc = None
        /\ tasks[t].code = Str(<<"x", "\t", "y">>)
        /\ "saved" \in Kinds(tasks[t].out)
        /\ movies = {Row(tasks[t].code, tasks[t].file_id, tasks[t].cover_id)}
        /\ ADMIN_ID \notin DOMAIN pending_adds

PersistenceFails(t) ==
    /\ tasks[t].kind = "cover"
    /\ tasks[t].pc = "db"
    /\ tasks'[t].exc = "OperationalError"

\* C10 (as claimed): when the insert raises, the admin's pending record is
\* deleted, the failure reply is sent and the handler ends.
C10_PendingDeletedOnFailure ==
    [][\A t \in DOMAIN tasks :
           PersistenceFails(t)
               => /\ ADMIN_ID \notin DOMAIN pending_adds'
                  /\ tasks'[t].out = <<Msg("failed", <<>>)>>
                  /\ tasks'[t].pc = "done"
      ]_vars

\* C10 (amended): when the insert raises, the pending map and the table are
\* left as they were, so the admin's record stays; the failure reply is
\* sent and the handler ends, and an ended handler takes no further step: the
\* insert is not retried.
C10_PendingKeptOnFailure ==
    [][\A t \in DOMAIN tasks :
           /\ PersistenceFails(t)
                  => /\ pending_adds' = pending_adds
                     /\ ADMIN_ID \in DOMAIN pending_adds
                            => pending_adds'[ADMIN_ID] = pending_adds[ADMIN_ID]
                     /\ movies' = movies
                     /\ tasks'[t].out = <<Msg("failed", <<>>)>>
                     /\ tasks'[t].pc = "done"
           /\ tasks[t].pc = "done" => tasks'[t] = tasks[t]
      ]_vars

\* The insert of a photo handler raised, the handler has ended with the
\* failure reply, and the pending record it read is still there.
C10_Witness ==
    \E t \in CoverTasks :
        /\ tasks[t].pc = "done" /\ tasks[t].exc = "OperationalError"
        /\ tasks[t].out = <<Msg("failed", <<>>)>>
        /\ ADMIN_ID \in DOMAIN pending_adds
        /\ pending_adds[ADMIN_ID] = [code |-> tasks[t].code, file_id |-> tasks[t].file_id]
        /\ movies = {}

\* C13 (as claimed): a /start invocation that passed the check and has ended,
\* by returning or by an exception of a send, has made a send attempt for
\* every row of the code: it reached the last row.
C13_EveryEntryAttempted ==
    \A t \in StartTasks :
        (tasks[t].in_all = "True" /\ tasks[t].pc \in {"done", "raised"})
            => tasks[t].idx >= Len(tasks[t].rows)

\* The delete_later task of deleters' for the message of d.
SameDeleter(d) ==
    CHOOSE e \in deleters' : e.task = d.task /\ e.msg = d.msg

\* C19: a delete_later task calls delete_messages once, for its own message,
\* when its delay has run out, and ends with the call whether it raised or
\* not: an ended task takes no further step. The step of the call changes no
\* other delete_later task and no handler, so it sends nothing.
C19_OneDeletionAttempt ==
    [][\A d \in deleters :
           /\ \E e \in deleters' : e.task = d.task /\ e.msg = d.msg
           /\ LET e == SameDeleter(d)
              IN  /\ e.attempts \in {d.attempts, d.attempts + 1}
                  /\ e.attempts <= 1
                  /\ e.attempts = d.attempts + 1
                         => /\ d.pc = "sleep" /\ d.delay = 0
                            /\ e.pc \in {"deleted", "failed"}
                            /\ deleters' \ {e} = deleters \ {d}
                            /\ tasks' = tasks
                  /\ e.pc \in {"deleted", "failed"} => e.attempts = 1
                  /\ d.pc \in {"deleted", "failed"} => e = d
      ]_vars

\* The deletion of a cover failed and the deletion of the video sent after
\* it went through.
C19_Witness ==
    \E d, e \in deleters :
        /\ d.task = e.task /\ d.msg + 1 = e.msg
        /\ d.pc = "failed" /\ d.attempts = 1
        /\ e.pc = "deleted" /\ e.attempts = 1

\* The four ways an /addmovie message is malformed, read off the message:
\* no reply target, a target without video and document, no second part in
\* the text, or a second part that is empty or holds a space once stripped.
Malformed(m) ==
    \/ ~m.reply_to.present
    \/ (m.reply_to.video = <<>> /\ m.reply_to.document = <<>>)
    \/ Len(split_maxsplit1(m.text)) < 2
    \/ LET arg == strip(split_maxsplit1(m.text)[2])
       IN  arg = <<>> \/ 32 \in Range(arg)

MalformedMessages == {m \in AddMessages : Malformed(m)}

\* The messages that are not malformed and have a sender, with the pending
\* record each asks for.
ValidMessages == {m \in AddMessages \ MalformedMessages : m.from_user /= NoUser}

RecordOf ==
    [m \in ValidMessages |->
        [code |-> strip(split_maxsplit1(m.text)[2]),
         file_id |-> IF m.reply_to.video /= <<>> THEN m.reply_to.video
                     ELSE m.reply_to.document]]

ValidationReplies == {"usage", "need_code", "invalid_code"}

\* C11: a malformed /addmovie is answered with one of the three validation
\* replies and leaves _pending_adds and the table as they were, whether or
\* not the sender has a pending record.
C11_MalformedAddChangesNothing ==
    [][\A m \in MalformedMessages :
           \/ /\ addLog'.reply \in ValidationReplies
              /\ pending_adds' = pending_adds
              /\ movies' = movies
           \/ ~cmd_addmovie(m.from_user, m.in_source, m.reply_to, m.text)
      ]_vars

\* The admin has a pending record, and the last /addmovie was answered with
\* the invalid-code reply: the record, which only a valid /addmovie writes,
\* was there when the malformed one arrived.
C11_Witness ==
    /\ ADMIN_ID \in DOMAIN pending_adds
    /\ addLog.reply = "invalid_code"

\* C12 (as claimed): when a photo handler of the admin resumes from the
\* insert while the admin's pending record is no longer the one the handler
\* read, written by a later /addmovie, the record is still there after the
\* handler's step.
C12_SecondRecordSurvives ==
    [][\A t \in CoverTasks :
           (/\ tasks[t].pc = "db" /\ tasks'[t].pc /= "db"
            /\ ADMIN_ID \in DOMAIN pending_adds
            /\ pending_adds[ADMIN_ID]
                   /= [code |-> tasks[t].code, file_id |-> tasks[t].file_id])
               => /\ ADMIN_ID \in DOMAIN pending_adds'
                  /\ pending_adds'[ADMIN_ID] = pending_adds[ADMIN_ID]
      ]_vars

\* C14: a step of cmd_addmovie for a message of user X, and a step of a
\* photo handler, which runs for the admin, leave the pending record of
\* every other user as it was.
C14_PendingIsolation ==
    [][/\ \A m \in AddMessages :
              \/ \A y \in Users \ {m.from_user} :
                     PendingOf(pending_adds', y) = PendingOf(pending_adds, y)
              \/ ~cmd_addmovie(m.from_user, m.in_source, m.reply_to, m.text)
       /\ tasks' /= tasks =>
              /\ \A t \in DOMAIN tasks' : tasks'[t].user = ADMIN_ID
              /\ \A y \in Users \ {ADMIN_ID} :
                     PendingOf(pending_adds', y) = PendingOf(pending_adds, y)
      ]_vars

\* Both users have a pending record and a photo handler of the admin is past
\* its insert: the /addmovie of the user who wrote a record last ran while
\* the other user had one.
C14_Witness ==
    /\ DOMAIN pending_adds = {ADMIN_ID, OtherUser}
    /\ \E t \in CoverTasks : tasks[t].pc = "get_me"

\* C15: a valid /addmovie writes the sender's pending record with its code
\* and file id whether or not the sender had one; a photo handler takes the
\* code and file id of the record that is there when the photo arrives, and
\* the only row its insert can add is the row of that code and file id.
C15_LastWriteWins ==
    [][/\ \A m \in ValidMessages :
              \/ PendingOf(pending_adds', m.from_user) = <<RecordOf[m]>>
              \/ ~cmd_addmovie(m.from_user, m.in_source, m.reply_to, m.text)
       /\ (Len(tasks') = Len(tasks) + 1 /\ ADMIN_ID \in DOMAIN pending_adds)
              => LET new == tasks'[Len(tasks')]
                 IN  [code |-> new.code, file_id |-> new.file_id]
                         = pending_adds[ADMIN_ID]
       /\ \A t \in CoverTasks :
              /\ tasks'[t].code = tasks[t].code
              /\ tasks'[t].file_id = tasks[t].file_id
              /\ (tasks[t].pc = "db" /\ tasks'[t].pc /= "db")
                     => movies' \subseteq
                            movies \cup {Row(tasks[t].code, tasks[t].file_id,
                                             tasks[t].cover_id)}
       /\ movies' /= movies
              => \E t \in CoverTasks : tasks[t].pc = "db" /\ tasks'[t].pc /= "db"
      ]_vars

\* The last /addmovie overwrote a record of another code; a photo handler
\* has saved the newer code and file id, and the table has no row of the
\* overwritten code.
C15_Witness ==
    \E t \in CoverTasks :
        /\ addLog.reply = "send_cover"
        /\ addLog.replaced /= <<>>
        /\ addLog.replaced[1].code /= tasks[t].code
        /\ addLog.replaced[1].file_id /= tasks[t].file_id
        /\ "saved" \in Kinds(tasks[t].out)
        /\ movies = {Row(tasks[t].code, tasks[t].file_id, tasks[t].cover_id)}
        /\ OtherUser \notin DOMAIN pending_adds

\* C16 (as claimed): the code of every pending record and of every row is a
\* non-empty text without a whitespace character of any kind.
C16_CodesWhitespaceFree ==
    /\ \A u \in DOMAIN pending_adds :
           /\ pending_adds[u].code /= <<>>
           /\ \A c \in Range(pending_adds[u].code) : ~IsSpace(c)
    /\ \A r \in movies :
           /\ r.code /= <<>>
           /\ \A c \in Range(r.code) : ~IsSpace(c)

\* The handler invocation a step has started, as a sequence of none or one.
Started == IF Len(tasks') = Len(tasks) + 1 THEN <<tasks'[Len(tasks')]>> ELSE <<>>

\* The photo handlers whose insert returns in this step.
Inserting == {t \in CoverTasks : tasks[t].pc = "db" /\ tasks'[t].pc /= "db"}

C20_StoreWrittenByAdminPhoto ==
    [][/\ movies' /= movies
              => /\ tasks' /= tasks
                 /\ \E t \in Inserting :
                        /\ tasks[t].user = ADMIN_ID
                        /\ movies' = movies \cup {Row(tasks[t].code, tasks[t].file_id,
                                                       tasks[t].cover_id)}
       /\ \A i \in DOMAIN Started :
              /\ Started[i].user = ADMIN_ID
              /\ movies' = movies /\ pending_adds' = pending_adds /\ addLog' = addLog
              /\ IF ADMIN_ID \in DOMAIN pending_adds
                 THEN [code |-> Started[i].code, file_id |-> Started[i].file_id]
                          = pending_adds[ADMIN_ID]
                 ELSE /\ Started[i].pc = "done"
                      /\ Started[i].out = <<>>
       /\ \A t \in CoverTasks :
              (tasks[t].pc = "done" /\ tasks[t].out = <<>>) => tasks'[t] = tasks[t]
       /\ tasks' /= tasks
              => PendingOf(pending_adds', OtherUser) = PendingOf(pending_adds, OtherUser)
      ]_vars

\* Another user of the source channel has a pending record, the admin has
\* none; the admin's photo has been handled with no reply, and the table is
\* empty.
C20_Witness ==
    \E t \in CoverTasks :
        /\ OtherUser \in DOMAIN pending_adds
        /\ ADMIN_ID \notin DOMAIN pending_adds
        /\ tasks[t].pc = "done" /\ tasks[t].out = <<>> /\ tasks[t].exc = None
        /\ movies = {}

====
